---------------------------- MODULE Spec2Model ----------------------------
(***************************************************************************)
(* Reconciliation core of the auction platform (apis/immo-api):            *)
(* AuctionData, ScraperCoordinator and run_coordinated_scrape.             *)
(*                                                                         *)
(* Values.  Python strings are TLA+ strings.  Numbers are written as the   *)
(* text Python prints for them ("50000.0"), because the only arithmetic    *)
(* the core does on them is a truth test and an f-string.  Python's None   *)
(* is the value None below, which is different from every string the      *)
(* program handles, the string "None" included.  Lists are sequences.      *)
(***************************************************************************)
EXTENDS Integers, Sequences, FiniteSets, TLC

None == "<None>"

(***************************************************************************)
(* Bounds of the model.                                                    *)
(***************************************************************************)
MaxRuns == 2
MaxPages == 2

(***************************************************************************)
(* Program constants.                                                      *)
(***************************************************************************)
PhotoCap == 30
MaxWorkers == 3
GeocodeBatchSize == 50
Retries == 3
MaxGroup == 3
ExecutorWorkers == 2
MaxTriggers == 4

VARIABLES
    \* ---- merge development (ScraperCoordinator._merge_auctions) ----
    mAcc,       \* the merged record so far
    mPrev,      \* the merged record before the last merge
    mIn,        \* the record folded in by the last merge
    mSwap,      \* the same two records merged in the opposite order
    mSteps,     \* number of merges done
    \* ---- storage ----
    auctions,   \* the auctions table: a sequence of rows, rowid = index
    lastOp,     \* what the last upsert did
    \* ---- coordinated runs (run_coordinated_scrape) ----
    site,       \* what each origin site does to its adapter (fixed)
    job,        \* the arguments of the run trigger: sources, max_pages
    runNo,      \* number of runs started
    pc,         \* where the current run is
    fut,        \* per source: the future of its worker (run_all)
    seqPos,     \* position in the explicit source list (run_source loop)
    seqResults, \* the results dictionary of the explicit source list
    history,    \* the scrape_history table
    summary,    \* what the last run returned
    rowsAtStart,\* number of rows of auctions when the current run started
    \* ---- one fetch (BaseScraper.fetch_page / fetch_json) ----
    fKind,      \* which fetcher is called: "page" or "json"
    fScript,    \* what the server does on the 1st, 2nd, 3rd request
    fPc,        \* where the call is
    fAttempt,   \* number of requests sent
    fSleeps,    \* the backoff sleeps done, in seconds
    fRateSlept, \* whether _rate_limit slept before the first request
    fResult,    \* what the call returned
    \* ---- HTTP triggers (routers/scraping.py) ----
    rQueue,     \* the executor's work queue: tasks submitted, not yet taken
    rExec,      \* the tasks the executor's threads are running
    rSync,      \* the /run request the event loop is serving
    rCount,     \* number of trigger requests received
    \* ---- one call of _deduplicate_and_merge ----
    dIn,        \* the list of records the call is given
    dOut,       \* the list it returns
    dPc         \* where the call is

mergeVars == <<mAcc, mPrev, mIn, mSwap, mSteps>>
storeVars == <<auctions, lastOp>>
runVars == <<site, job, runNo, pc, fut, seqPos, seqResults, history, summary,
             rowsAtStart>>
fetchVars == <<fKind, fScript, fPc, fAttempt, fSleeps, fRateSlept, fResult>>
routerVars == <<rQueue, rExec, rSync, rCount>>
dedupVars == <<dIn, dOut, dPc>>
vars == <<mergeVars, storeVars, runVars, fetchVars, routerVars, dedupVars>>

(***************************************************************************)
(* AuctionData                                                             *)
(***************************************************************************)
ListFields == {"dates_visite", "photos", "documents"}
NumFields == {"latitude", "longitude", "surface", "nb_pieces", "mise_a_prix",
              "prix_adjudication", "prix_marche_estime", "prix_m2_marche"}

\* AuctionData.__init__; scraped_at is the time of construction.
NewAuctionData(now) ==
    [source |-> "", source_id |-> None, url |-> None,
     adresse |-> None, code_postal |-> None, ville |-> None,
     department |-> None, latitude |-> None, longitude |-> None,
     type_bien |-> None, surface |-> None, nb_pieces |-> None,
     description |-> None, description_detaillee |-> None,
     mise_a_prix |-> None, prix_adjudication |-> None,
     prix_marche_estime |-> None, prix_m2_marche |-> None,
     tribunal |-> None, avocat_nom |-> None, avocat_email |-> None,
     avocat_telephone |-> None, numero_rg |-> None,
     date_vente |-> None, heure_vente |-> None,
     dates_visite |-> <<>>, photos |-> <<>>, documents |-> <<>>,
     pv_url |-> None, scraped_at |-> now, hash |-> None]

\* Python's truth test of the value v of attribute f: None, "", 0 and 0.0
\* and the empty list are false.
Truthy(f, v) ==
    IF f \in ListFields THEN v # <<>>
    ELSE IF f \in NumFields THEN v \notin {None, "0", "0.0"}
    ELSE v \notin {None, ""}

\* What an f-string writes for a value: None is written "None".
Fmt(v) == IF v = None THEN "None" ELSE v

\* hashlib.md5(content).hexdigest(), taken to be collision free.
Md5(content) == "md5(" \o content \o ")"

HashContent(a) ==
    a.source \o ":" \o Fmt(a.adresse) \o ":" \o Fmt(a.code_postal) \o ":"
        \o Fmt(a.mise_a_prix) \o ":" \o Fmt(a.date_vente)

\* AuctionData.compute_hash: the record with its hash set.
ComputeHash(a) == [a EXCEPT !.hash = Md5(HashContent(a))]

(***************************************************************************)
(* Sequence helpers.                                                       *)
(***************************************************************************)
ToSet(s) == {s[i] : i \in 1..Len(s)}

Take(s, n) == SubSeq(s, 1, IF Len(s) < n THEN Len(s) ELSE n)

\* The indices 1..Len(xs), in order.
Indices(xs) == [i \in 1..Len(xs) |-> i]

\* "for x in xs: if x not in acc: acc.append(x)": acc followed by the
\* elements of xs that are not in acc, each at its first occurrence.
AppendNew(acc, xs) ==
    LET fresh(i) == /\ xs[i] \notin ToSet(acc)
                    /\ \A j \in 1..(i - 1) : xs[j] # xs[i]
        kept == SelectSeq(Indices(xs), fresh)
    IN  acc \o [k \in 1..Len(kept) |-> xs[kept[k]]]

\* The visit dates the model uses, in ascending (ISO text) order.
DateOrder == <<"2025-02-03", "2025-02-10", "2025-02-17">>

\* sorted(set(ds)) for ISO dates.
SortedSet(ds) == SelectSeq(DateOrder, LAMBDA d : d \in ToSet(ds))


(***************************************************************************)
(* ScraperCoordinator._merge_auctions                                      *)
(***************************************************************************)
\* "if not merged.f and auction.f: merged.f = auction.f"
FirstWins(f, m, a) ==
    IF ~Truthy(f, m[f]) /\ Truthy(f, a[f]) THEN a[f] ELSE m[f]

\* The fields merged by the first-non-empty rule.
FirstWinsFields ==
    {"adresse", "code_postal", "ville", "department", "latitude", "longitude",
     "surface", "nb_pieces", "type_bien", "mise_a_prix", "prix_marche_estime",
     "tribunal", "avocat_nom", "avocat_email", "avocat_telephone", "numero_rg",
     "date_vente", "heure_vente", "pv_url"}

\* "Prefer longer description"
LongerDescription(m, a) ==
    IF Truthy("description_detaillee", a.description_detaillee)
       /\ (~Truthy("description_detaillee", m.description_detaillee)
           \/ Len(a.description_detaillee) > Len(m.description_detaillee))
    THEN a.description_detaillee
    ELSE m.description_detaillee

\* "existing_urls = {d["url"] for d in merged.documents}; for doc in
\* auction.documents: if doc["url"] not in existing_urls: append, add":
\* acc followed by the documents of docs whose url is not in acc, each url
\* at its first occurrence.
AppendNewDocs(acc, docs) ==
    LET fresh(i) == /\ docs[i].url \notin {d.url : d \in ToSet(acc)}
                    /\ \A j \in 1..(i - 1) : docs[j].url # docs[i].url
        kept == SelectSeq(Indices(docs), fresh)
    IN  acc \o [k \in 1..Len(kept) |-> docs[kept[k]]]

\* A merge that treats the visit dates as one more first-non-empty field.
MergeVisitDatesFirstWins(m, a) ==
    IF m.dates_visite = <<>> THEN a.dates_visite ELSE m.dates_visite

\* Visit dates of the merged record after one more record (not yet sorted).
MergeVisitDates(m, a) == AppendNew(m.dates_visite, a.dates_visite)

\* Photos of the merged record after one more record (not yet capped).
MergePhotos(m, a) == AppendNew(m.photos, a.photos)

\* Documents of the merged record after one more record.
MergeDocuments(m, a) == AppendNewDocs(m.documents, a.documents)

\* One turn of the loop "for auction in auctions[1:]".
MergeInto(m, a) ==
    [f \in DOMAIN m |->
        IF f \in FirstWinsFields THEN FirstWins(f, m, a)
        ELSE IF f = "description_detaillee" THEN LongerDescription(m, a)
        ELSE IF f = "dates_visite" THEN MergeVisitDates(m, a)
        ELSE IF f = "photos" THEN MergePhotos(m, a)
        ELSE IF f = "documents" THEN MergeDocuments(m, a)
        ELSE m[f]]

RECURSIVE MergeLoop(_, _)
MergeLoop(m, rest) ==
    IF rest = <<>> THEN m ELSE MergeLoop(MergeInto(m, Head(rest)), Tail(rest))

\* After the loop: primary source, merge time, photo cap, sorted dates.
MergeFinish(m, sources, now) ==
    [m EXCEPT !.source = sources[1],
              !.scraped_at = now,
              !.photos = Take(m.photos, PhotoCap),
              !.dates_visite = SortedSet(m.dates_visite)]

MergeAuctions(as, now) ==
    IF Len(as) = 1 THEN as[1]
    ELSE MergeFinish(MergeLoop(as[1], Tail(as)),
                     [i \in 1..Len(as) |-> as[i].source], now)


(***************************************************************************)
(* ScraperCoordinator._deduplicate_and_merge                               *)
(***************************************************************************)
\* "x or ''"
OrEmpty(f, v) == IF Truthy(f, v) THEN v ELSE ""

\* A key that prefers the url to the hash.
DedupKeyUrlFirst(a) ==
    IF Truthy("url", a.url) THEN "url:" \o a.url
    ELSE IF Truthy("hash", a.hash) THEN a.hash
    ELSE IF Truthy("adresse", a.adresse) /\ Truthy("code_postal", a.code_postal)
    THEN "addr:" \o a.adresse \o ":" \o a.code_postal
    ELSE "desc:" \o OrEmpty("description", a.description) \o ":"
            \o OrEmpty("mise_a_prix", a.mise_a_prix)

DedupKey(a) ==
    IF Truthy("hash", a.hash) THEN a.hash
    ELSE IF Truthy("url", a.url) THEN "url:" \o a.url
    ELSE IF Truthy("adresse", a.adresse) /\ Truthy("code_postal", a.code_postal)
    THEN "addr:" \o a.adresse \o ":" \o a.code_postal
    ELSE "desc:" \o OrEmpty("description", a.description) \o ":"
            \o OrEmpty("mise_a_prix", a.mise_a_prix)

\* The records whose key appears for the first time, in order: one per
\* group, in the order of the groups dictionary.
GroupHeads(as) ==
    SelectSeq(Indices(as),
              LAMBDA i : \A j \in 1..(i - 1) : DedupKey(as[j]) # DedupKey(as[i]))

GroupOf(as, key) == SelectSeq(as, LAMBDA a : DedupKey(a) = key)

DeduplicateAndMerge(as, now) ==
    LET heads == GroupHeads(as)
    IN  [k \in 1..Len(heads) |->
            MergeAuctions(GroupOf(as, DedupKey(as[heads[k]])), now)]


(***************************************************************************)
(* AuctionData.to_dict and the auctions table.                             *)
(*                                                                         *)
(* A list attribute is stored as text: visit dates joined by commas,       *)
(* photos and documents as JSON; an empty list is stored as NULL.  The     *)
(* stored text is modelled by the kind of text and the items it lists; the *)
(* NULL of such a column is SqlNull.  The NULL of any other column is      *)
(* None.                                                                   *)
(***************************************************************************)
SqlNull == [ser |-> "null", items |-> <<>>]

\* ",".join(xs)
CommaJoin(xs) == [ser |-> "csv", items |-> xs]

\* json.dumps(xs)
JsonDumps(xs) == [ser |-> "json", items |-> xs]

ToDict(a) ==
    [f \in DOMAIN a |->
        IF f = "dates_visite"
            THEN (IF a.dates_visite # <<>> THEN CommaJoin(a.dates_visite) ELSE SqlNull)
        ELSE IF f = "photos"
            THEN (IF a.photos # <<>> THEN JsonDumps(a.photos) ELSE SqlNull)
        ELSE IF f = "documents"
            THEN (IF a.documents # <<>> THEN JsonDumps(a.documents) ELSE SqlNull)
        ELSE a[f]]

\* Python's truth test of data.get(field) on the dictionary of to_dict.
DictTruthy(f, v) == IF f \in ListFields THEN v # SqlNull ELSE Truthy(f, v)

\* The columns _insert_record writes.
InsertColumns ==
    {"source", "source_id", "url", "adresse", "code_postal", "ville",
     "department", "latitude", "longitude", "type_bien", "surface",
     "nb_pieces", "description", "description_detaillee", "mise_a_prix",
     "date_vente", "heure_vente", "tribunal", "avocat_nom", "avocat_email",
     "avocat_telephone", "numero_rg", "dates_visite", "photos", "documents",
     "pv_url", "hash", "scraped_at"}

\* The columns _update_record may write.
UpdateFields ==
    {"photos", "documents", "description_detaillee", "pv_url", "dates_visite",
     "avocat_nom", "avocat_email", "avocat_telephone", "latitude", "longitude",
     "scraped_at"}

\* ScraperCoordinator._insert_record: the new row.
InsertRecord(data) == [c \in InsertColumns |-> data[c]]

\* An update that writes every allow-listed column, empty or not.
UpdateRecordUnconditional(row, data) ==
    [c \in DOMAIN row |-> IF c \in UpdateFields THEN data[c] ELSE row[c]]

\* An update that writes every column the incoming record has a value for.
UpdateRecordAnyColumn(row, data) ==
    [c \in DOMAIN row |-> IF DictTruthy(c, data[c]) THEN data[c] ELSE row[c]]

\* ScraperCoordinator._update_record: the row after the update.
UpdateRecord(row, data) ==
    [c \in DOMAIN row |->
        IF c \in UpdateFields /\ DictTruthy(c, data[c]) THEN data[c] ELSE row[c]]

\* A lookup that wants the hash and the url to be those of the row.
MatchesHashAndUrl(row, a) ==
    /\ a.hash # None /\ row.hash = a.hash
    /\ a.url # None /\ row.url = a.url

\* "WHERE hash = ? OR url = ?": a comparison with NULL is never true.
Matches(row, a) ==
    \/ a.hash # None /\ row.hash = a.hash
    \/ a.url # None /\ row.url = a.url

\* The rows the SELECT of _save_auctions can return for a.  The query has
\* no ORDER BY, so fetchone() may return any row that matches.
MatchingIds(table, a) == {i \in 1..Len(table) : Matches(table[i], a)}

RECURSIVE SaveOutcomes(_, _, _)
\* ScraperCoordinator._save_auctions: every possible table after the batch,
\* with the list of what was done to it.
SaveOutcomes(table, as, ops) ==
    IF as = <<>> THEN {[table |-> table, ops |-> ops]}
    ELSE LET a == Head(as)
             data == ToDict(a)
             ids == MatchingIds(table, a)
         IN  IF ids = {}
             THEN SaveOutcomes(
                     Append(table, InsertRecord(data)), Tail(as),
                     Append(ops, [kind |-> "Inserted", id |-> Len(table) + 1,
                                  data |-> data]))
             ELSE UNION { SaveOutcomes(
                             [table EXCEPT ![i] = UpdateRecord(table[i], data)],
                             Tail(as),
                             Append(ops, [kind |-> "Updated", id |-> i,
                                          data |-> data])) : i \in ids }

SaveAuctions(table, as) == SaveOutcomes(table, as, <<>>)

(***************************************************************************)
(* ScraperCoordinator: the sources and the state of a run.                 *)
(***************************************************************************)
\* ScraperCoordinator.SCRAPERS, in the order of the dictionary.
SourceOrder == <<"encheres_publiques", "licitor", "agorastore">>

Sources == ToSet(SourceOrder)

\* The future of a source's worker before anything is submitted.
\* What a worker that has not finished holds.
NoOutcome ==
    [raised |-> FALSE, error |-> None, result |-> [status |-> "none"],
     auctions |-> <<>>]

IdleFuture == [state |-> "idle", hid |-> 0, out |-> NoOutcome]

NoSummary == [kind |-> "none"]

\* No run has been triggered.
\* No fetch is under way.
FetchIdle ==
    /\ fKind = "page"
    /\ fScript = <<>>
    /\ fPc = "idle"
    /\ fAttempt = 0
    /\ fSleeps = <<>>
    /\ fRateSlept = FALSE
    /\ fResult = None

\* No request has been received.
NoTask == [id |-> 0, endpoint |-> "none"]

RouterIdle ==
    /\ rQueue = <<>>
    /\ rExec = {}
    /\ rSync = NoTask
    /\ rCount = 0

\* _deduplicate_and_merge has not been called.
DedupIdle ==
    /\ dIn = <<>>
    /\ dOut = <<>>
    /\ dPc = "idle"

RunIdle ==
    /\ site = [s \in Sources |-> "none"]
    /\ job = [sources |-> <<>>, max_pages |-> 1]
    /\ runNo = 0
    /\ pc = "idle"
    /\ fut = [s \in Sources |-> IdleFuture]
    /\ seqPos = 0
    /\ seqResults = <<>>
    /\ history = <<>>
    /\ summary = NoSummary
    /\ rowsAtStart = 0

(***************************************************************************)
(* Records of one merge group, as the agorastore adapter can build them    *)
(* (AgorastoreScraper._parse_api_data appends every photo it is given: no  *)
(* cap, no duplicate check).  All of them describe the same lot, so they   *)
(* have the same hash; they differ in what each listing carried.           *)
(***************************************************************************)
PhotoSeq(lo, hi) == [i \in 1..(hi - lo + 1) |-> "photo" \o ToString(lo + i - 1)]

PhotoLists ==
    <<  <<>>,
        PhotoSeq(1, 20),
        PhotoSeq(21, 30),
        PhotoSeq(15, 34),
        PhotoSeq(1, 31),
        PhotoSeq(1, 20) \o PhotoSeq(1, 20)  >>

VisitLists ==
    <<  <<>>,
        <<"2025-02-10">>,
        <<"2025-02-17", "2025-02-03">>  >>

Doc(type, name, url) == [type |-> type, name |-> name, url |-> url]

DocumentLists ==
    <<  <<>>,
        << Doc("pdf", "Cahier des charges", "doc1") >>,
        << Doc("pdf", "Cahier", "doc1"), Doc("pdf", "Diagnostics", "doc2") >>  >>

\* The lot every record of the group describes.
BaseLot(source, url, now) ==
    [NewAuctionData(now) EXCEPT
        !.source = source, !.url = url, !.source_id = "4711",
        !.adresse = "12 Rue X", !.code_postal = "13001",
        !.department = "13",
        !.mise_a_prix = "50000.0", !.date_vente = "2025-03-01"]

GroupRecord(p, v, d) ==
    ComputeHash(
        [BaseLot("agorastore", "https://www.agorastore.fr/lot/4711", "t0") EXCEPT
            !.photos = PhotoLists[p],
            !.dates_visite = VisitLists[v],
            !.documents = DocumentLists[d],
            !.avocat_email = IF d = 2 THEN "a@x.fr" ELSE None,
            !.description_detaillee =
                IF v = 1 THEN None ELSE IF v = 2 THEN "court" ELSE "plus long",
            !.ville = IF p = 1 THEN "" ELSE "Marseille",
            !.description = IF d = 1 THEN None ELSE "Appartement T3",
            !.prix_adjudication = IF p = 2 THEN "61000.0" ELSE None,
            !.prix_m2_marche = IF p = 3 THEN "3200.0" ELSE None,
            !.tribunal = IF v = 3 THEN "TJ Marseille" ELSE None])

\* Which visit dates go with which documents in the listings modelled.
VisitDocPairs == {<<1, 1>>, <<2, 2>>, <<3, 3>>, <<3, 2>>}

\* Two readings of one agorastore lot whose hashed text is the same although
\* the fields differ: the first has no address and a postal code field
\* that holds "12 Rue X:13001", the second the address ":12 Rue X" and the
\* postal code "13001".  Both hash "agorastore::12 Rue X:13001:...".
SeparatorClash ==
    {ComputeHash([BaseLot("agorastore", "https://www.agorastore.fr/lot/4712", "t0")
                    EXCEPT !.adresse = "", !.code_postal = "12 Rue X:13001"]),
     ComputeHash([BaseLot("agorastore", "https://www.agorastore.fr/lot/4712", "t0")
                    EXCEPT !.adresse = ":12 Rue X", !.code_postal = "13001"])}

\* Another lot as two pages of the same site word it: the city in small
\* letters and in capitals.
TwoWordings ==
    {ComputeHash(
        [BaseLot("agorastore", "https://www.agorastore.fr/lot/4713", "t0") EXCEPT
            !.mise_a_prix = "70000.0", !.ville = v]) :
     v \in {"Marseille", "MARSEILLE"}}

MergeInputs ==
    {GroupRecord(p, vd[1], vd[2]) :
        p \in 1..Len(PhotoLists), vd \in VisitDocPairs}
    \cup SeparatorClash
    \cup TwoWordings

NoOp == [kind |-> "none", id |-> 0]

\* The other developments are at rest while records are merged.
StoreIdle == auctions = <<>> /\ lastOp = NoOp

MergeInit ==
    /\ mAcc \in MergeInputs
    /\ mPrev = mAcc
    /\ mIn = mAcc
    /\ mSwap = mAcc
    /\ mSteps = 0
    /\ StoreIdle
    /\ RunIdle
    /\ FetchIdle
    /\ RouterIdle
    /\ DedupIdle

\* One more record r of the group (same key) is merged into the merged record:
\* _merge_auctions([merged, r]); the opposite order is computed beside it.
MergeNext(r) ==
    /\ DedupKey(r) = DedupKey(mAcc)
    /\ mPrev' = mAcc
    /\ mIn' = r
    /\ mAcc' = MergeAuctions(<<mAcc, r>>, "t1")
    /\ mSwap' = MergeAuctions(<<r, mAcc>>, "t1")
    /\ mSteps' = 1
    /\ UNCHANGED <<dedupVars, routerVars, storeVars, runVars, fetchVars>>

MergeStep == \E r \in MergeInputs : MergeNext(r)

SpecMerge == MergeInit /\ [][MergeStep]_vars


(***************************************************************************)
(* Upserts of single scraped records (SpecUpsert).  The records describe   *)
(* two lots under two urls; a lot re-listed under the other lot's url      *)
(* gives a record whose hash and url match different rows.                 *)
(***************************************************************************)
LotUrls == <<"https://www.licitor.com/annonce/1", "https://www.licitor.com/annonce/2">>

Lot(n, url, now) ==
    IF n = 1
    THEN BaseLot("licitor", url, now)
    ELSE [BaseLot("encheres_publiques", url, now) EXCEPT
            !.adresse = "3 Quai Y", !.code_postal = "13002",
            !.mise_a_prix = "80000.0", !.date_vente = "2025-04-15",
            !.source_id = "4712"]

\* What one scrape of a lot's page found: 1 nothing beyond the listing,
\* 2 a complete reading, 3 another reading with some fields found, some
\* empty texts and a zero latitude.
Scraped(n, url, k) ==
    IF k = 1 THEN Lot(n, url, "t1")
    ELSE IF k = 2 THEN
        [Lot(n, url, "t2") EXCEPT
            !.ville = "Marseille", !.type_bien = "appartement",
            !.surface = "45.0", !.nb_pieces = "2",
            !.description = "Appartement T2",
            !.description_detaillee = "Un appartement de deux pieces",
            !.heure_vente = "14:30", !.tribunal = "TJ Marseille",
            !.avocat_nom = "Dupont", !.avocat_email = "a@x.fr",
            !.avocat_telephone = "0491000000", !.numero_rg = "24/00123",
            !.latitude = "43.3", !.longitude = "5.4",
            !.dates_visite = <<"2025-02-10">>,
            !.photos = <<"photo1", "photo2">>,
            !.documents = << Doc("pdf", "Cahier des charges", "doc1") >>,
            !.pv_url = "pv1"]
    ELSE
        [Lot(n, url, "t3") EXCEPT
            !.ville = "Aix-en-Provence", !.type_bien = "maison",
            !.surface = "120.0", !.description = "Maison",
            !.description_detaillee = "",
            !.tribunal = "", !.numero_rg = "24/00456", !.department = "",
            !.avocat_nom = "", !.avocat_email = "b@y.fr",
            !.latitude = "0.0", !.longitude = "5.5",
            !.photos = <<"photo3">>,
            !.pv_url = ""]

Readings == 1..3

UpsertInputs ==
    {ComputeHash(Scraped(n, LotUrls[u], k)) :
        n \in 1..2, u \in 1..Len(LotUrls), k \in Readings}

MergeIdle ==
    /\ mAcc = NewAuctionData("t0")
    /\ mPrev = mAcc /\ mIn = mAcc /\ mSwap = mAcc
    /\ mSteps = 0

UpsertInit ==
    /\ auctions = <<>>
    /\ lastOp = NoOp
    /\ MergeIdle
    /\ RunIdle
    /\ FetchIdle
    /\ RouterIdle
    /\ DedupIdle

\* _save_auctions([a]): a is inserted, or a row it matches is updated.
Upsert(a) ==
    /\ \E out \in SaveAuctions(auctions, <<a>>) :
          /\ auctions' = out.table
          /\ lastOp' = out.ops[1]
    /\ UNCHANGED <<dedupVars, routerVars, mergeVars, runVars, fetchVars>>

UpsertStep == \E a \in UpsertInputs : Upsert(a)

SpecUpsert == UpsertInit /\ [][UpsertStep]_vars

(***************************************************************************)
(* The origin sites.  encheres_publiques lists lot X; licitor lists the    *)
(* same lot X (with a visit date and the lawyer's email) and lot Y, and    *)
(* lists Y again on its second page; agorastore lists a lot it excludes    *)
(* (detail returns None) and lot Z under two urls.                         *)
(***************************************************************************)
ListingPages(s) ==
    IF s = "encheres_publiques" THEN << <<"ep/x">> >>
    ELSE IF s = "licitor" THEN << <<"li/x", "li/y">>, <<"li/y">> >>
    ELSE << <<"ag/excluded", "ag/z1", "ag/z2">> >>

\* The page on which a site with a failing listing fails: its last one.
ListingFaultPage(s) == Len(ListingPages(s))

\* scrape_listing_page(page): the urls of the page, none beyond the last
\* page.  When every attempt to fetch the page fails (an outage of the
\* site: timeouts, 5xx), fetch_page returns None and the adapter answers
\* "if not soup: return []".
ScrapeListingPage(s, page) ==
    IF site[s] = "outage" /\ page = ListingFaultPage(s) THEN <<>>
    ELSE IF page <= Len(ListingPages(s)) THEN ListingPages(s)[page]
    ELSE <<>>

\* scrape_detail_page(url) of a site that answers: [found |-> FALSE] is
\* the adapter's None.
ScrapeDetailPage(s, url, now) ==
    IF url = "ep/x" THEN
        [found |-> TRUE, auction |-> BaseLot(s, url, now)]
    ELSE IF url = "li/x" THEN
        [found |-> TRUE,
         auction |-> [BaseLot(s, url, now) EXCEPT
                        !.dates_visite = <<"2025-02-10">>,
                        !.avocat_email = "a@x.fr"]]
    ELSE IF url = "li/y" THEN
        [found |-> TRUE,
         auction |-> [BaseLot(s, url, now) EXCEPT
                        !.adresse = "3 Quai Y", !.code_postal = "13002",
                        !.mise_a_prix = "80000.0",
                        !.photos = <<"photo1", "photo2">>]]
    ELSE IF url = "ag/excluded" THEN
        [found |-> FALSE]
    ELSE
        [found |-> TRUE,
         auction |-> [BaseLot(s, url, now) EXCEPT
                        !.adresse = "8 Place Z", !.code_postal = "13003",
                        !.mise_a_prix = "120000",
                        !.photos = IF url = "ag/z1" THEN <<"photo3">>
                                   ELSE <<"photo4", "photo3">>,
                        !.documents = IF url = "ag/z1" THEN <<>>
                                      ELSE << Doc("pdf", "Cahier", "doc1") >>]]

\* What can go wrong with an adapter: nothing, its construction raises, its
\* listing raises (on the last page it has), its detail raises on every
\* identifier, its close raises.
Faults == {"none", "ctor", "listing", "detail", "close"}

(***************************************************************************)
(* ScraperCoordinator._run_scraper                                         *)
(***************************************************************************)
\* The inner loop "for url in urls": the records of one listing page.  A
\* detail that raises is caught and skipped, a None detail is skipped.
DetailsOf(s, urls, now) ==
    LET keep(i) == /\ site[s] # "detail"
                   /\ ScrapeDetailPage(s, urls[i], now).found
        kept == SelectSeq(Indices(urls), keep)
    IN  [k \in 1..Len(kept) |->
            ComputeHash(ScrapeDetailPage(s, urls[kept[k]], now).auction)]

RECURSIVE ScrapePages(_, _, _, _, _)
\* The loop "for page in range(1, max_pages + 1)" from page on: whether it
\* raised, the last value of page, the records accumulated.
ScrapePages(s, page, maxPages, acc, now) ==
    IF page > maxPages
    THEN [raised |-> FALSE, page |-> maxPages, auctions |-> acc]
    ELSE IF site[s] = "listing" /\ page = ListingFaultPage(s)
    THEN [raised |-> TRUE, page |-> page, auctions |-> acc]
    ELSE IF ScrapeListingPage(s, page) = <<>>
    THEN [raised |-> FALSE, page |-> page, auctions |-> acc]
    ELSE ScrapePages(s, page + 1, maxPages,
                     acc \o DetailsOf(s, ScrapeListingPage(s, page), now), now)

\* The pages scrape_listing_page is called for, in order of the calls: the
\* loop variable takes the values 1 .. its last value.
ListingCalls(s, maxPages) ==
    [p \in 1..ScrapePages(s, 1, maxPages, <<>>, "t").page |-> p]

RECURSIVE DetailCalls(_, _, _)
\* The urls scrape_detail_page is called for from page on, in order of the
\* calls: "for url in urls" has no memory of the urls of earlier pages.
DetailCalls(s, page, maxPages) ==
    IF page > maxPages THEN <<>>
    ELSE IF site[s] = "listing" /\ page = ListingFaultPage(s) THEN <<>>
    ELSE IF ScrapeListingPage(s, page) = <<>> THEN <<>>
    ELSE ScrapeListingPage(s, page) \o DetailCalls(s, page + 1, maxPages)

\* A run of the adapter in which a detail page that raises ends the worker.
RunScraperDetailFatal(s, maxPages, now) ==
    LET Raise(msg) == [NoOutcome EXCEPT !.raised = TRUE, !.error = msg]
        loop == ScrapePages(s, 1, maxPages, <<>>, now)
    IN  IF site[s] \in {"ctor", "detail"} THEN Raise("constructor failed")
        ELSE IF loop.raised THEN Raise("listing failed")
        ELSE IF site[s] = "close" THEN Raise("close failed")
        ELSE [NoOutcome EXCEPT
                !.result = [status |-> "completed",
                            pages_scraped |-> loop.page,
                            auctions_found |-> Len(loop.auctions)],
                !.auctions = loop.auctions]

\* The try block of _run_scraper: it raises, or returns (result, auctions).
RunScraper(s, maxPages, now) ==
    LET Raise(msg) == [NoOutcome EXCEPT !.raised = TRUE, !.error = msg]
        loop == ScrapePages(s, 1, maxPages, <<>>, now)
    IN  IF site[s] = "ctor" THEN Raise("constructor failed")
        ELSE IF loop.raised THEN Raise("listing failed")
        ELSE IF site[s] = "close" THEN Raise("close failed")
        ELSE [NoOutcome EXCEPT
                !.result = [status |-> "completed",
                            pages_scraped |-> loop.page,
                            auctions_found |-> Len(loop.auctions)],
                !.auctions = loop.auctions]

\* _record_scrape_start: the new row of scrape_history.
ScrapeStartRow(s, now) ==
    [source |-> s, started_at |-> now, completed_at |-> None,
     status |-> "running", pages_scraped |-> 0, auctions_found |-> 0,
     error_message |-> None]

\* A finalization "WHERE source = ?": it writes every row of the source of
\* row hid.
RecordScrapeEndBySource(table, hid, out, now) ==
    [i \in 1..Len(table) |->
        IF table[i].source # table[hid].source THEN table[i]
        ELSE IF out.raised
        THEN [table[i] EXCEPT !.completed_at = now, !.status = "error",
                              !.error_message = out.error]
        ELSE [table[i] EXCEPT !.completed_at = now, !.status = "completed",
                              !.pages_scraped = out.result.pages_scraped,
                              !.auctions_found = out.result.auctions_found]]

\* A finalization that takes the newest row of the table for its own.
RecordScrapeEndNewestRow(table, hid, out, now) ==
    [table EXCEPT ![Len(table)] =
        IF out.raised
        THEN [@ EXCEPT !.completed_at = now, !.status = "error",
                       !.error_message = out.error]
        ELSE [@ EXCEPT !.completed_at = now, !.status = "completed",
                       !.pages_scraped = out.result.pages_scraped,
                       !.auctions_found = out.result.auctions_found]]

\* _record_scrape_complete / _record_scrape_error on row hid.
RecordScrapeEnd(table, hid, out, now) ==
    [table EXCEPT ![hid] =
        IF out.raised
        THEN [@ EXCEPT !.completed_at = now, !.status = "error",
                       !.error_message = out.error]
        ELSE [@ EXCEPT !.completed_at = now, !.status = "completed",
                       !.pages_scraped = out.result.pages_scraped,
                       !.auctions_found = out.result.auctions_found]]

(***************************************************************************)
(* ScraperCoordinator._geocode_auctions                                    *)
(*                                                                         *)
(* geocode_address returns a (lat, lon) tuple or None.  The pass tests     *)
(* "result and result.get('lat')": on None nothing is done, on a tuple     *)
(* .get raises AttributeError, which the pass catches per row.  Whatever   *)
(* the provider answers, no row is written and the count stays 0.          *)
(***************************************************************************)
\* geocode_address: the provider knows the addresses of lots X and Z and
\* answers a (lat, lon) tuple for them; for any other text it finds no
\* feature and the function returns None.
GeocodeAddress(address) ==
    IF address = "12 Rue X, 13001 "
    THEN [found |-> TRUE, lat |-> "43.2965", lon |-> "5.3698"]
    ELSE IF address = "8 Place Z, 13003 "
    THEN [found |-> TRUE, lat |-> "43.3100", lon |-> "5.3800"]
    ELSE [found |-> FALSE]

\* f"{row['adresse']}, {row['code_postal']} {row['ville'] or ''}"
AddressText(row) ==
    row.adresse \o ", " \o Fmt(row.code_postal) \o " "
        \o (IF row.ville \in {None, ""} THEN "" ELSE row.ville)

\* "WHERE (latitude IS NULL OR longitude IS NULL) AND adresse IS NOT NULL
\* LIMIT ?": the first batch_size such rows.
GeocodeSelected(table) ==
    LET cand == {i \in 1..Len(table) :
                    /\ table[i].latitude = None \/ table[i].longitude = None
                    /\ table[i].adresse # None}
    IN  {i \in cand : Cardinality({j \in cand : j < i}) < GeocodeBatchSize}

\* What the try block does for one selected row: "skipped" when the
\* provider returned None; when it returned a tuple, result.get("lat")
\* raises AttributeError (a tuple has no get) before the UPDATE, and the
\* except branch of the loop logs it.
GeocodeRow(row) ==
    IF GeocodeAddress(AddressText(row)).found THEN "AttributeError"
    ELSE "skipped"

\* _geocode_auctions: the table after the pass and the count returned.
GeocodeAuctions(table) ==
    LET hits == {i \in GeocodeSelected(table) :
                    GeocodeRow(table[i]) = "updated"}
    IN  [table |-> [i \in 1..Len(table) |->
                      IF i \in hits
                      THEN [table[i] EXCEPT
                              !.latitude = GeocodeAddress(AddressText(table[i])).lat,
                              !.longitude = GeocodeAddress(AddressText(table[i])).lon]
                      ELSE table[i]],
         geocoded |-> Cardinality(hits)]

(***************************************************************************)
(* Coordinated runs: run_coordinated_scrape, run_all, run_source           *)
(*                                                                         *)
(* The sites and the job (sources, max_pages) are chosen once; the job is  *)
(* triggered up to MaxRuns times against the same storage.                 *)
(***************************************************************************)
Now == "T" \o ToString(runNo)

\* The explicit source lists of a job: <<>> (all sources) or a list of
\* registered sources without repetition.
SourceLists ==
    {<<>>}
    \cup {<<a>> : a \in Sources}
    \cup {<<a, b>> : <<a, b>> \in {p \in Sources \X Sources : p[1] # p[2]}}
    \cup {<<a, b, c>> : <<a, b, c>> \in
            {p \in Sources \X Sources \X Sources :
                p[1] # p[2] /\ p[1] # p[3] /\ p[2] # p[3]}}

Init ==
    /\ MergeIdle
    /\ StoreIdle
    /\ FetchIdle
    /\ RouterIdle
    /\ DedupIdle
    /\ site \in [Sources -> Faults]
    /\ job \in [sources : SourceLists, max_pages : 1..MaxPages]
    /\ runNo = 0
    /\ pc = "idle"
    /\ fut = [s \in Sources |-> IdleFuture]
    /\ seqPos = 0
    /\ seqResults = <<>>
    /\ history = <<>>
    /\ summary = NoSummary
    /\ rowsAtStart = 0

\* run_coordinated_scrape is called: "if sources:" picks run_source per
\* source, else run_all, which submits one worker per registered scraper.
StartRun ==
    /\ pc \in {"idle", "returned", "raised"}
    /\ runNo < MaxRuns
    /\ runNo' = runNo + 1
    /\ rowsAtStart' = Len(auctions)
    /\ summary' = NoSummary
    /\ seqResults' = <<>>
    /\ IF job.sources = <<>>
       THEN /\ pc' = "workers"
            /\ fut' = [s \in Sources |-> [IdleFuture EXCEPT !.state = "queued"]]
            /\ seqPos' = 0
       ELSE /\ pc' = "sequence"
            /\ fut' = fut
            /\ seqPos' = 1
    /\ UNCHANGED <<dedupVars, routerVars, mergeVars, storeVars, fetchVars, site, job, history>>

Running == {s \in Sources : fut[s].state = "running"}

\* A pool thread takes the worker of s: _run_scraper records the start.
WorkerStart(s) ==
    /\ pc = "workers"
    /\ fut[s].state = "queued"
    /\ Cardinality(Running) < MaxWorkers
    /\ history' = Append(history, ScrapeStartRow(s, Now))
    /\ fut' = [fut EXCEPT ![s] = [@ EXCEPT !.state = "running",
                                           !.hid = Len(history) + 1]]
    /\ UNCHANGED <<dedupVars, routerVars, mergeVars, storeVars, fetchVars, site, job, runNo, pc, seqPos,
                   seqResults, summary, rowsAtStart>>

\* The worker of s ends: its history row is finalized, the future holds
\* what it returned or raised.  The worker of a site whose adapter call
\* never returns never ends.
WorkerFinish(s) ==
    /\ pc = "workers"
    /\ fut[s].state = "running"
    /\ site[s] # "hang"
    /\ LET out == RunScraper(s, job.max_pages, Now)
       IN  /\ history' = RecordScrapeEnd(history, fut[s].hid, out, Now)
           /\ fut' = [fut EXCEPT ![s] = [@ EXCEPT !.state = "done",
                                                  !.out = out]]
    /\ UNCHANGED <<dedupVars, routerVars, mergeVars, storeVars, fetchVars, site, job, runNo, pc, seqPos,
                   seqResults, summary, rowsAtStart>>

\* results[name] in run_all
ResultOf(out) ==
    IF out.raised THEN [status |-> "error", error |-> out.error]
    ELSE out.result

RECURSIVE AllAuctions(_)
\* all_auctions: the records of the futures that returned, in the order of
\* the SCRAPERS dictionary.
AllAuctions(names) ==
    IF names = <<>> THEN <<>>
    ELSE (IF fut[Head(names)].out.raised THEN <<>>
          ELSE fut[Head(names)].out.auctions) \o AllAuctions(Tail(names))

\* run_all once every future is done: merge, save, geocode, summary.
MergeAndSave ==
    /\ pc = "workers"
    /\ \A s \in Sources : fut[s].state = "done"
    /\ LET all == AllAuctions(SourceOrder)
           merged == DeduplicateAndMerge(all, Now)
       IN  \E saved \in SaveAuctions(auctions, merged) :
              LET geo == GeocodeAuctions(saved.table)
              IN  /\ auctions' = geo.table
                  /\ summary' = [kind |-> "run_all", status |-> "completed",
                                 sources |-> [s \in Sources |-> ResultOf(fut[s].out)],
                                 total_auctions |-> Len(all),
                                 after_dedup |-> Len(merged),
                                 saved |-> Len(saved.ops),
                                 geocoded |-> geo.geocoded]
    /\ pc' = "returned"
    /\ fut' = [s \in Sources |-> IdleFuture]
    /\ UNCHANGED <<dedupVars, routerVars, mergeVars, lastOp, fetchVars, site, job, runNo, seqPos, seqResults,
                   history, rowsAtStart>>

\* One turn of the loop "for source in sources": run_source(source).  An
\* exception of _run_scraper is caught nowhere: it ends the loop and leaves
\* run_coordinated_scrape.
SequenceStep ==
    /\ pc = "sequence"
    /\ seqPos <= Len(job.sources)
    /\ LET s == job.sources[seqPos]
           started == Append(history, ScrapeStartRow(s, Now))
           out == RunScraper(s, job.max_pages, Now)
       IN  /\ history' = RecordScrapeEnd(started, Len(started), out, Now)
           /\ IF out.raised
              THEN /\ pc' = "raised"
                   /\ summary' = [kind |-> "raised", error |-> out.error]
                   /\ UNCHANGED <<auctions, seqPos, seqResults>>
              ELSE \E saved \in SaveAuctions(auctions, out.auctions) :
                      /\ auctions' = saved.table
                      /\ seqResults' =
                            Append(seqResults,
                                   [source |-> s,
                                    result |-> [status |-> out.result.status,
                                                pages_scraped |-> out.result.pages_scraped,
                                                auctions_found |-> out.result.auctions_found,
                                                saved |-> Len(saved.ops)]])
                      /\ seqPos' = seqPos + 1
                      /\ IF seqPos = Len(job.sources)
                         THEN /\ pc' = "returned"
                              /\ summary' = [kind |-> "sources",
                                             results |-> seqResults']
                         ELSE /\ pc' = "sequence"
                              /\ summary' = summary
    /\ UNCHANGED <<dedupVars, routerVars, mergeVars, lastOp, fetchVars, site, job, runNo, fut, rowsAtStart>>

Next ==
    \/ StartRun
    \/ \E s \in Sources : WorkerStart(s)
    \/ \E s \in Sources : WorkerFinish(s)
    \/ MergeAndSave
    \/ SequenceStep

Spec == Init /\ [][Next]_vars

(***************************************************************************)
(* run_all against sites that do not answer.                               *)
(*                                                                         *)
(* run_all collects the results with "for name, future in futures.items(): *)
(* future.result()": result() is called without a timeout, so the loop     *)
(* waits for each future until it is done.  Here a site can also keep its  *)
(* adapter waiting for ever (a response that never ends) or fail every     *)
(* attempt to fetch its last listing page, and every run is a run of all   *)
(* sources.                                                                *)
(***************************************************************************)
\* What a site that does not answer does to its adapter.
Outages == {"hang", "outage"}

JoinInit ==
    /\ MergeIdle
    /\ StoreIdle
    /\ FetchIdle
    /\ RouterIdle
    /\ DedupIdle
    /\ site \in [Sources -> Faults \cup Outages]
    /\ job \in [sources : {<<>>}, max_pages : 1..MaxPages]
    /\ runNo = 0
    /\ pc = "idle"
    /\ fut = [s \in Sources |-> IdleFuture]
    /\ seqPos = 0
    /\ seqResults = <<>>
    /\ history = <<>>
    /\ summary = NoSummary
    /\ rowsAtStart = 0

JoinNext ==
    \/ StartRun
    \/ \E s \in Sources : WorkerStart(s)
    \/ \E s \in Sources : WorkerFinish(s)
    \/ MergeAndSave

SpecJoin == JoinInit /\ [][JoinNext]_vars

(***************************************************************************)
(* _save_auctions on a batch in which writes can fail.                     *)
(*                                                                         *)
(* The body of "for auction in auctions" is one try block: when the        *)
(* SELECT, to_dict or the INSERT/UPDATE of a record raises, the statement  *)
(* has written nothing, the except branch logs, saved is not incremented   *)
(* and the loop goes on; conn.commit() follows the loop.                   *)
(***************************************************************************)
\* A batch that stops at the first record whose write raises.
RECURSIVE SaveOutcomesAborting(_, _, _, _)
SaveOutcomesAborting(table, as, fails, ops) ==
    IF as = <<>> \/ Head(fails) THEN {[table |-> table, ops |-> ops]}
    ELSE UNION { SaveOutcomesAborting(o.table, Tail(as), Tail(fails),
                                      ops \o o.ops) :
                 o \in SaveOutcomes(table, <<Head(as)>>, <<>>) }

RECURSIVE SaveOutcomesFailing(_, _, _, _)
\* _save_auctions(as) where the write of as[i] raises when fails[i]: every
\* possible table after the batch, with the list of the writes done.
SaveOutcomesFailing(table, as, fails, ops) ==
    IF as = <<>> THEN {[table |-> table, ops |-> ops]}
    ELSE IF Head(fails)
    THEN SaveOutcomesFailing(table, Tail(as), Tail(fails), ops)
    ELSE UNION { SaveOutcomesFailing(o.table, Tail(as), Tail(fails),
                                     ops \o o.ops) :
                 o \in SaveOutcomes(table, <<Head(as)>>, <<>>) }

\* The records of a batch: each lot read at its own url, thinly (reading
\* 1) or completely (reading 2).
BatchInputs ==
    {ComputeHash(Scraped(n, LotUrls[n], k)) : n \in 1..2, k \in {1, 2}}

BatchInit ==
    /\ auctions = <<>>
    /\ lastOp = NoOp
    /\ MergeIdle
    /\ RunIdle
    /\ FetchIdle
    /\ RouterIdle
    /\ DedupIdle

\* _save_auctions([a, b]); the return value is the number of writes done.
SaveBatch(a, b, fails) ==
    /\ \E out \in SaveOutcomesFailing(auctions, <<a, b>>, fails, <<>>) :
          /\ auctions' = out.table
          /\ lastOp' = [kind |-> "Batch", id |-> 0, batch |-> <<a, b>>,
                        fails |-> fails, ops |-> out.ops,
                        saved |-> Len(out.ops)]
    /\ UNCHANGED <<dedupVars, routerVars, mergeVars, runVars, fetchVars>>

BatchStep ==
    \E a, b \in BatchInputs : \E fails \in [1..2 -> BOOLEAN] :
        SaveBatch(a, b, fails)

SpecBatch == BatchInit /\ [][BatchStep]_vars

(***************************************************************************)
(* BaseScraper.fetch_page and BaseScraper.fetch_json                       *)
(*                                                                         *)
(* The server's behaviour on the successive requests of one call is fixed  *)
(* beforehand: "ok" (a 2xx answer that parses), "404", "403" and "500"     *)
(* (raise_for_status raises HTTPStatusError), "timeout" (the client        *)
(* raises RequestError), "bad" (any other exception: the body does not     *)
(* parse).                                                                 *)
(***************************************************************************)
Responses == {"ok", "404", "403", "500", "timeout", "bad"}

HttpStatusErrors == {"404", "403", "500"}

FetchInit ==
    /\ MergeIdle
    /\ StoreIdle
    /\ RunIdle
    /\ RouterIdle
    /\ DedupIdle
    /\ fKind \in {"page", "json"}
    /\ fScript \in [1..Retries -> Responses]
    /\ fPc = "call"
    /\ fAttempt = 0
    /\ fSleeps = <<>>
    /\ fRateSlept = FALSE
    /\ fResult = None

\* The call begins: _rate_limit sleeps when the last request of this
\* adapter is less than RATE_LIMIT_DELAY old.
FetchCall ==
    /\ fPc = "call"
    /\ fRateSlept' \in BOOLEAN
    /\ fPc' = "attempt"
    /\ UNCHANGED <<dedupVars, routerVars, mergeVars, storeVars, runVars, fKind, fScript, fAttempt,
                   fSleeps, fResult>>

\* One turn of "for attempt in range(retries)" up to the return or the
\* sleep: the request is sent and its outcome handled.
FetchAttempt ==
    /\ fPc = "attempt"
    /\ fAttempt < Retries
    /\ fAttempt' = fAttempt + 1
    /\ LET r == fScript[fAttempt + 1]
       IN  IF r = "ok"
           THEN /\ fResult' = IF fKind = "page" THEN "soup" ELSE "json"
                /\ fPc' = "done"
           ELSE IF fKind = "page" /\ (r = "404" \/ r \notin HttpStatusErrors \cup {"timeout"})
           THEN /\ fResult' = None
                /\ fPc' = "done"
           ELSE /\ fResult' = fResult
                /\ fPc' = "sleep"
    /\ UNCHANGED <<dedupVars, routerVars, mergeVars, storeVars, runVars, fKind, fScript, fSleeps,
                   fRateSlept>>

\* "time.sleep(2 ** attempt)" after a failed request, then the next turn of
\* the loop; after the last turn the function returns None.
FetchSleep ==
    /\ fPc = "sleep"
    /\ fSleeps' = Append(fSleeps, 2 ^ (fAttempt - 1))
    /\ IF fAttempt = Retries
       THEN fPc' = "done" /\ fResult' = None
       ELSE fPc' = "attempt" /\ fResult' = fResult
    /\ UNCHANGED <<dedupVars, routerVars, mergeVars, storeVars, runVars, fKind, fScript, fAttempt,
                   fRateSlept>>

FetchNext == FetchCall \/ FetchAttempt \/ FetchSleep

SpecFetch == FetchInit /\ [][FetchNext]_vars

(***************************************************************************)
(* The HTTP triggers (routers/scraping.py)                                 *)
(*                                                                         *)
(* /trigger and /source/{source}/trigger wrap run_coordinated_scrape in a  *)
(* task and hand it to the module's ThreadPoolExecutor(max_workers=2);     *)
(* /run calls run_coordinated_scrape in the request handler itself, a      *)
(* coroutine, so the event loop serves no other request until it returns.  *)
(* No handler tests whether a run is in progress and none takes a lock.    *)
(* A task is a run of run_coordinated_scrape against DB_PATH from the      *)
(* moment a thread takes it until it returns.                              *)
(***************************************************************************)
Endpoints == {"trigger", "source_trigger", "run"}

NewTask(endpoint) == [id |-> rCount + 1, endpoint |-> endpoint]

RouterInit ==
    /\ MergeIdle
    /\ StoreIdle
    /\ RunIdle
    /\ FetchIdle
    /\ RouterIdle
    /\ DedupIdle

\* POST /trigger: executor.submit(scrape_task), then "started" is answered.
TriggerScrape ==
    /\ rCount < MaxTriggers
    /\ rSync = NoTask
    /\ rQueue' = Append(rQueue, NewTask("trigger"))
    /\ rCount' = rCount + 1
    /\ UNCHANGED <<dedupVars, mergeVars, storeVars, runVars, fetchVars, rExec, rSync>>

\* POST /source/{source}/trigger: the same executor, a task of one source.
TriggerSourceScrape ==
    /\ rCount < MaxTriggers
    /\ rSync = NoTask
    /\ rQueue' = Append(rQueue, NewTask("source_trigger"))
    /\ rCount' = rCount + 1
    /\ UNCHANGED <<dedupVars, mergeVars, storeVars, runVars, fetchVars, rExec, rSync>>

\* POST /run: the handler enters run_coordinated_scrape.
RunScrapeSync ==
    /\ rCount < MaxTriggers
    /\ rSync = NoTask
    /\ rSync' = NewTask("run")
    /\ rCount' = rCount + 1
    /\ UNCHANGED <<dedupVars, mergeVars, storeVars, runVars, fetchVars, rQueue, rExec>>

\* run_coordinated_scrape returns (or raises) in the /run handler.
RunScrapeSyncReturn ==
    /\ rSync # NoTask
    /\ rSync' = NoTask
    /\ UNCHANGED <<dedupVars, mergeVars, storeVars, runVars, fetchVars, rQueue, rExec,
                   rCount>>

\* A thread of the executor that has nothing to do takes the oldest task.
ExecutorTake ==
    /\ rQueue # <<>>
    /\ Cardinality(rExec) < ExecutorWorkers
    /\ rExec' = rExec \cup {Head(rQueue)}
    /\ rQueue' = Tail(rQueue)
    /\ UNCHANGED <<dedupVars, mergeVars, storeVars, runVars, fetchVars, rSync, rCount>>

\* scrape_task returns in its thread: the result, or the error it caught.
TaskReturn ==
    /\ \E task \in rExec : rExec' = rExec \ {task}
    /\ UNCHANGED <<dedupVars, mergeVars, storeVars, runVars, fetchVars, rQueue, rSync,
                   rCount>>

RouterNext ==
    \/ TriggerScrape
    \/ TriggerSourceScrape
    \/ RunScrapeSync
    \/ RunScrapeSyncReturn
    \/ ExecutorTake
    \/ TaskReturn

SpecRouter == RouterInit /\ [][RouterNext]_vars

(***************************************************************************)
(* One call of ScraperCoordinator._deduplicate_and_merge on a list of      *)
(* AuctionData objects, with or without a hash (AuctionData.__init__       *)
(* leaves hash at None until compute_hash is called).                      *)
(***************************************************************************)
\* A record as __init__ builds it: no hash, no url, no address.
Bare(source, now) ==
    [NewAuctionData(now) EXCEPT !.source = source, !.source_id = "4711"]

DedupInputs ==
    { \* two sources, one url, no hash
      [Bare("encheres_publiques", "t0") EXCEPT
          !.url = "https://x.fr/lot/1", !.adresse = "12 Rue X",
          !.code_postal = "13001", !.photos = <<"photo1">>],
      [Bare("licitor", "t0") EXCEPT
          !.url = "https://x.fr/lot/1", !.ville = "Marseille",
          !.photos = <<"photo2">>],
      \* the same url, with a hash
      ComputeHash(BaseLot("licitor", "https://x.fr/lot/1", "t0")),
      \* two sources, one address and postal code, no url, no hash
      [Bare("agorastore", "t0") EXCEPT
          !.adresse = "12 Rue X", !.code_postal = "13001",
          !.dates_visite = <<"2025-02-17", "2025-02-03">>],
      [Bare("licitor", "t0") EXCEPT
          !.adresse = "12 Rue X", !.code_postal = "13001",
          !.description = "Maison", !.mise_a_prix = "50000.0"],
      \* a description and a price only; the second has an address too but
      \* no postal code
      [Bare("encheres_publiques", "t0") EXCEPT
          !.description = "Maison", !.mise_a_prix = "50000.0"],
      [Bare("agorastore", "t0") EXCEPT
          !.adresse = "12 Rue X", !.description = "Maison",
          !.mise_a_prix = "50000.0", !.tribunal = "TJ Marseille"] }

DedupInit ==
    /\ MergeIdle
    /\ StoreIdle
    /\ RunIdle
    /\ FetchIdle
    /\ RouterIdle
    /\ dIn \in UNION {[1..n -> DedupInputs] : n \in 1..MaxGroup}
    /\ dOut = <<>>
    /\ dPc = "called"

\* The call runs and returns.
DedupCall ==
    /\ dPc = "called"
    /\ dOut' = DeduplicateAndMerge(dIn, "t1")
    /\ dPc' = "returned"
    /\ UNCHANGED <<mergeVars, storeVars, runVars, fetchVars, routerVars, dIn>>

SpecDedup == DedupInit /\ [][DedupCall]_vars

(***************************************************************************)
(* Claims about the merge (checked under SpecMerge).                       *)
(***************************************************************************)
DocUrls(docs) == {d.url : d \in ToSet(docs)}

\* C9 as stated: merging [A, B] and [B, A] gives the same set of visit
\* dates, the same set of photos and the same set of documents.
C9_MergeCommutesOnCollections ==
    mSteps = 1 =>
        /\ ToSet(mAcc.dates_visite) = ToSet(mSwap.dates_visite)
        /\ ToSet(mAcc.photos) = ToSet(mSwap.photos)
        /\ ToSet(mAcc.documents) = ToSet(mSwap.documents)

\* C9 amended: merging [A, B] and [B, A] gives the same set of visit dates
\* and the same set of document urls; it gives the same set of photos when
\* the cap of 30 cuts neither result, that is when the photo list built in
\* either order has at most 30 entries.
C9_MergeCommutesWhenUncapped ==
    mSteps = 1 =>
        /\ ToSet(mAcc.dates_visite) = ToSet(mSwap.dates_visite)
        /\ DocUrls(mAcc.documents) = DocUrls(mSwap.documents)
        /\ (Len(MergePhotos(mPrev, mIn)) <= PhotoCap
              /\ Len(MergePhotos(mIn, mPrev)) <= PhotoCap)
            => ToSet(mAcc.photos) = ToSet(mSwap.photos)

\* Two records that each bring photos, visit dates and documents the other
\* lacks have been merged in both orders, uncapped, and the two results
\* list the photos in different orders.
C9_Witness ==
    /\ mSteps = 1
    /\ ToSet(mIn.photos) \ ToSet(mPrev.photos) # {}
    /\ ToSet(mPrev.photos) \ ToSet(mIn.photos) # {}
    /\ ToSet(mIn.dates_visite) \ ToSet(mPrev.dates_visite) # {}
    /\ ToSet(mPrev.dates_visite) \ ToSet(mIn.dates_visite) # {}
    /\ DocUrls(mIn.documents) \ DocUrls(mPrev.documents) # {}
    /\ mPrev.documents # <<>>
    /\ Len(MergePhotos(mPrev, mIn)) <= PhotoCap
    /\ Len(MergePhotos(mIn, mPrev)) <= PhotoCap
    /\ mAcc.photos # mSwap.photos

\* C10: every visit date, photo and document of the merged record before a
\* merge is still in the merged record after it.
C10_MergeNeverLosesElements ==
    mSteps = 1 =>
        /\ ToSet(mPrev.dates_visite) \subseteq ToSet(mAcc.dates_visite)
        /\ ToSet(mPrev.photos) \subseteq ToSet(mAcc.photos)
        /\ ToSet(mPrev.documents) \subseteq ToSet(mAcc.documents)


\* The distinct elements of xs, each at its first occurrence.
FirstSeen(xs) == AppendNew(<<>>, xs)

Min(a, b) == IF a < b THEN a ELSE b

\* C11: the photos of a merged record are the union of the group's photo
\* urls in first-seen order, cut to 30: their number is the smaller of 30
\* and the number of distinct photo urls of the group.
C11_PhotosAreCappedUnion ==
    mSteps = 1 =>
        /\ mAcc.photos = Take(FirstSeen(mPrev.photos \o mIn.photos), PhotoCap)
        /\ Len(mAcc.photos) =
              Min(PhotoCap, Cardinality(ToSet(mPrev.photos) \cup ToSet(mIn.photos)))

NoDuplicates(xs) == \A i, j \in 1..Len(xs) : i # j => xs[i] # xs[j]

\* ISO dates compare as text: the place of a date in DateOrder.
DateRank(d) == CHOOSE k \in 1..Len(DateOrder) : DateOrder[k] = d

SortedAscending(ds) ==
    \A i, j \in 1..Len(ds) : i < j => DateRank(ds[i]) < DateRank(ds[j])

\* What _deduplicate_and_merge returns for the group merged so far (a group
\* of one record before the first merge).
DedupOutput ==
    ToSet(DeduplicateAndMerge(IF mSteps = 0 THEN <<mAcc>> ELSE <<mPrev, mIn>>,
                              "t1"))

\* C12: every record the deduplication returns, a group of one record
\* passed through unchanged included, has visit dates without duplicates
\* and in ascending order, at most 30 photos, and no two documents with
\* the same url.
C12_CollectionInvariants ==
    \A r \in DedupOutput :
        /\ NoDuplicates(r.dates_visite)
        /\ SortedAscending(r.dates_visite)
        /\ Len(r.photos) <= PhotoCap
        /\ NoDuplicates([i \in 1..Len(r.documents) |-> r.documents[i].url])

\* C13: every record the deduplication returns carries the hash of its own
\* current source, address, postal code, starting price and sale date; when
\* a merge fills one of them from a later record the hash is recomputed.
C13_HashOfOwnFields ==
    \A r \in DedupOutput : r.hash = Md5(HashContent(r))

\* The scalar fields C14 names: location, property attributes, pricing,
\* legal, sale date and time, minutes url.
C14Fields ==
    {"adresse", "code_postal", "ville", "department", "latitude", "longitude",
     "type_bien", "surface", "nb_pieces", "description",
     "mise_a_prix", "prix_adjudication", "prix_m2_marche",
     "tribunal", "avocat_nom", "avocat_email", "avocat_telephone", "numero_rg",
     "date_vente", "heure_vente", "pv_url"}

Empty(v) == v \in {None, ""}

TextLen(v) == IF Empty(v) THEN 0 ELSE Len(v)

\* C14: for every scalar field the merged value is the first non-empty
\* value in group order and a populated value is never overwritten; the
\* detailed description is the longest of the group, the earliest one on
\* equal length.
C14_ScalarsFirstNonEmpty ==
    mSteps = 1 =>
        /\ \A f \in C14Fields :
              /\ ~Empty(mPrev[f]) => mAcc[f] = mPrev[f]
              /\ (Empty(mPrev[f]) /\ ~Empty(mIn[f])) => mAcc[f] = mIn[f]
              /\ (Empty(mPrev[f]) /\ Empty(mIn[f])) => Empty(mAcc[f])
        /\ mAcc.description_detaillee =
              IF TextLen(mIn.description_detaillee)
                    > TextLen(mPrev.description_detaillee)
              THEN mIn.description_detaillee
              ELSE mPrev.description_detaillee

(***************************************************************************)
(* Claims about the upsert (checked under SpecUpsert).                     *)
(***************************************************************************)
\* The allow-listed fields C6 names (scraped_at, always present, aside).
C6Fields ==
    {"photos", "documents", "description_detaillee", "pv_url", "dates_visite",
     "avocat_nom", "avocat_email", "avocat_telephone", "latitude", "longitude"}

\* A null or empty value of the incoming record.
NullOrEmpty(f, v) == IF f \in ListFields THEN v = SqlNull ELSE v \in {None, ""}

\* C6: when an upsert updates a row and the incoming record has a null or
\* empty value for an allow-listed field, the row's value of that field is
\* the same after the upsert as before it.
C6_UpdateKeepsFieldWhenIncomingEmpty ==
    [][ lastOp'.kind = "Updated" =>
          \A f \in C6Fields :
              NullOrEmpty(f, lastOp'.data[f]) =>
                  auctions'[lastOp'.id][f] = auctions[lastOp'.id][f] ]_vars

\* A row holding lawyerEmail "a@x.fr", photos and coordinates has been
\* updated from a scrape with no lawyerEmail, no photos and no coordinates,
\* and still holds them.
C6_Witness ==
    /\ lastOp.kind = "Updated"
    /\ lastOp.data.avocat_email = None
    /\ lastOp.data.photos = SqlNull
    /\ lastOp.data.latitude = None
    /\ auctions[lastOp.id].avocat_email = "a@x.fr"
    /\ auctions[lastOp.id].photos # SqlNull
    /\ auctions[lastOp.id].latitude = "43.3"

\* The stored fields outside the allow-list.
C7Fields ==
    {"source", "source_id", "url", "adresse", "code_postal", "ville",
     "department", "type_bien", "surface", "nb_pieces", "description",
     "mise_a_prix", "date_vente", "heure_vente", "tribunal", "numero_rg",
     "hash"}

\* C7: when an upsert updates a row, every field of the row outside the
\* allow-list has the same value after the upsert as before it.
C7_UpdateLeavesOtherFieldsAlone ==
    [][ lastOp'.kind = "Updated" =>
          \A f \in C7Fields :
              auctions'[lastOp'.id][f] = auctions[lastOp'.id][f] ]_vars

\* A row has been updated from a record of another lot (matched by url)
\* that differs from it in source, address, price, city and hash.
C7_Witness ==
    /\ lastOp.kind = "Updated"
    /\ lastOp.data.hash # auctions[lastOp.id].hash
    /\ lastOp.data.source # auctions[lastOp.id].source
    /\ lastOp.data.adresse # auctions[lastOp.id].adresse
    /\ lastOp.data.mise_a_prix # auctions[lastOp.id].mise_a_prix
    /\ lastOp.data.ville # auctions[lastOp.id].ville
    /\ lastOp.data.tribunal # auctions[lastOp.id].tribunal
    /\ auctions[lastOp.id].scraped_at = lastOp.data.scraped_at

\* C8: when the incoming record's hash matches one row and its url matches
\* a different row, the row updated is the one matched by hash.
C8_HashMatchTakesPrecedence ==
    lastOp.kind = "Updated" =>
        \A i, j \in 1..Len(auctions) :
            (i # j /\ auctions[i].hash = lastOp.data.hash
                   /\ auctions[j].url = lastOp.data.url)
            => lastOp.id = i

(***************************************************************************)
(* Claims about coordinated runs                                           *)
(***************************************************************************)
\* The sources the job runs.
Configured == IF job.sources = <<>> THEN Sources ELSE ToSet(job.sources)

Finished == pc \in {"returned", "raised"}

\* What the worker of s does in the current run.
OutcomeOf(s) == RunScraper(s, job.max_pages, Now)

RecordsOf(s) == ToSet(OutcomeOf(s).auctions)

Persisted(r) == \E i \in 1..Len(auctions) : Matches(auctions[i], r)

\* The status the returned summary gives for s.
StatusOf(s) ==
    IF summary.kind = "run_all" THEN summary.sources[s].status
    ELSE IF \E e \in ToSet(summary.results) : e.source = s
    THEN (CHOOSE e \in ToSet(summary.results) : e.source = s).result.status
    ELSE "absent"

FoundOf(s) ==
    IF summary.kind = "run_all" THEN summary.sources[s].auctions_found
    ELSE (CHOOSE e \in ToSet(summary.results) : e.source = s).result.auctions_found

\* The scrape_history rows of s written by the current run.
HistoryRows(s) ==
    {i \in 1..Len(history) :
        history[i].source = s /\ history[i].started_at = Now}

\* C1: Idempotence of persistence.  With sources that return the same
\* records each time, runs of the same job one after the other against the
\* same storage leave one row per identity: no two rows share a hash or a
\* url, every record of a source of a run that returned has a row, and a
\* second (or later) run inserts no row.
C1_SecondRunInsertsNoRow ==
    /\ \A i, j \in 1..Len(auctions) :
          i # j => /\ auctions[i].hash # auctions[j].hash
                   /\ auctions[i].url # auctions[j].url
    /\ pc = "returned" =>
          \A s \in Configured : \A r \in RecordsOf(s) : Persisted(r)
    /\ runNo >= 2 => Len(auctions) = rowsAtStart

\* A second run has returned and the table holds the rows of several lots.
C1_Witness ==
    /\ runNo = 2
    /\ pc = "returned"
    /\ rowsAtStart >= 3
    /\ \E s \in Configured : Cardinality(RecordsOf(s)) >= 2

LotX(row) ==
    /\ row.adresse = "12 Rue X"
    /\ row.code_postal = "13001"
    /\ row.mise_a_prix = "50000.0"
    /\ row.date_vente = "2025-03-01"

\* encheres_publiques is run before licitor.
EpFirst ==
    \/ job.sources = <<>>
    \/ \E i, j \in 1..Len(job.sources) :
          /\ i < j
          /\ job.sources[i] = "encheres_publiques"
          /\ job.sources[j] = "licitor"

\* C2: Cross-source convergence.  When encheres_publiques and licitor each
\* return one record for the same auction (equal address, postal code,
\* starting price and sale date; only the licitor record carries visit
\* dates), a run over both ends with exactly one row for that auction,
\* whose source is encheres_publiques and whose visit dates are licitor's.
C2_CrossSourceConvergence ==
    ( /\ pc = "returned"
      /\ EpFirst
      /\ site["encheres_publiques"] = "none"
      /\ site["licitor"] = "none" )
    => LET xs == {i \in 1..Len(auctions) : LotX(auctions[i])}
       IN  /\ Cardinality(xs) = 1
           /\ \A i \in xs :
                 /\ auctions[i].source = "encheres_publiques"
                 /\ auctions[i].dates_visite = CommaJoin(<<"2025-02-10">>)

\* The run returned, s was run, its detail page raises on every url and
\* every other site answers.
OnlyDetailFails(s) ==
    /\ pc = "returned"
    /\ s \in Configured
    /\ site[s] = "detail"
    /\ \A t \in Sources \ {s} : site[t] = "none"

OthersCompletedAndPersisted(s) ==
    \A t \in Configured \ {s} :
        /\ StatusOf(t) = "completed"
        /\ \A r \in RecordsOf(t) : Persisted(r)

C4_WorkerIsolation ==
    Finished =>
        \A s \in Configured :
            OutcomeOf(s).raised =>
                /\ \E i \in HistoryRows(s) : history[i].status = "error"
                /\ \A i \in 1..Len(auctions) : auctions[i].source # s
                /\ \A t \in Configured \ {s} :
                      /\ \E i \in HistoryRows(t) :
                            history[i].status \in {"completed", "error"}
                      /\ \A r \in RecordsOf(t) : Persisted(r)

\* C5: No exception escapes the coordinator.  For every choice of sources
\* and every failure of an adapter, run_coordinated_scrape returns a
\* summary that carries a status for every configured source.
C5_NoExceptionEscapes ==
    Finished =>
        /\ summary.kind \in {"run_all", "sources"}
        /\ \A s \in Configured : StatusOf(s) \in {"completed", "error"}

\* The overall outcome the returned summary carries: run_all writes a
\* "status" key, the dictionary of an explicit source list has none.
OverallStatus ==
    IF summary.kind = "run_all" THEN summary.status ELSE "absent"

\* C15: the overall outcome reported in the summary of a run is Completed
\* if and only if every configured source has status completed; when at
\* least one source ended in error it is PartiallyFailed.
C15_CompletedIffAllSourcesCompleted ==
    pc = "returned" =>
        /\ OverallStatus = "completed"
              <=> \A s \in Configured : StatusOf(s) = "completed"
        /\ (\E s \in Configured : StatusOf(s) = "error")
              => OverallStatus = "PartiallyFailed"

\* C16: at every moment of a run at most 3 source workers are executing,
\* and every configured source is run: when the run has ended each of them
\* has been started (it has a history row of this run).
C16_BoundedWorkersAllSourcesRun ==
    /\ Cardinality(Running) <= MaxWorkers
    /\ Finished => \A s \in Configured : HistoryRows(s) # {}

\* A source worker of the current run has not finished yet.
WorkersOutstanding ==
    \/ pc = "workers"
    \/ pc = "sequence" /\ seqPos <= Len(job.sources)

\* C17: in every run, over all sources or over an explicit list, no record
\* is written to the auctions table until every source worker of the run
\* has finished: while a worker is outstanding the table has the rows it
\* had when the run started.
C17_NoWriteBeforeJoin ==
    WorkersOutstanding => Len(auctions) = rowsAtStart

\* The worker of s has run to its end in the current run and got past the
\* construction of its adapter.
WorkerRan(s) ==
    /\ site[s] # "ctor"
    /\ \E i \in HistoryRows(s) : history[i].status \in {"completed", "error"}

\* C18: within one worker run the listing is called for pages 1, 2, ... in
\* order, never above max_pages and never after a page that came back
\* empty; the detail page is called at most once per url, also for a url
\* listed on several pages; a detail that returns None is skipped and is
\* no failure.
C18_WorkerLoop ==
    \A s \in Sources :
        WorkerRan(s) =>
            LET listed == ListingCalls(s, job.max_pages)
                detailed == DetailCalls(s, 1, job.max_pages)
            IN  /\ \A k \in 1..Len(listed) :
                      /\ listed[k] = k
                      /\ listed[k] <= job.max_pages
                      /\ k < Len(listed) => ScrapeListingPage(s, k) # <<>>
                /\ NoDuplicates(detailed)
                /\ site[s] = "none" =>
                      /\ ~OutcomeOf(s).raised
                      /\ Len(OutcomeOf(s).auctions) =
                            Cardinality({k \in 1..Len(detailed) :
                                ScrapeDetailPage(s, detailed[k], Now).found})

FinalizedRow(row) == row.status \in {"completed", "error"}

\* C19: a history row is created with status running when its adapter
\* starts (run_source creates and finalizes it within one call), it goes
\* from running to completed or to error only, a row that is completed or
\* in error is never changed again, and when a run has ended none of the
\* rows is still running.
C19_RunRecordLifecycle ==
    [][ /\ Len(history') >= Len(history)
        /\ \A i \in 1..Len(history) :
              /\ FinalizedRow(history[i]) => history'[i] = history[i]
              /\ history'[i] # history[i] =>
                    /\ history[i].status = "running"
                    /\ FinalizedRow(history'[i])
                    /\ history'[i].source = history[i].source
                    /\ history'[i].started_at = history[i].started_at
        /\ \A i \in (Len(history) + 1)..Len(history') :
              /\ history'[i].source \in Sources
              /\ history'[i].started_at = Now
              /\ IF pc = "workers"
                 THEN history'[i] = ScrapeStartRow(history'[i].source, Now)
                 ELSE FinalizedRow(history'[i])
        /\ pc' \in {"returned", "raised"} =>
              \A i \in 1..Len(history') : history'[i].status # "running"
      ]_vars

\* In a second run one worker is running while another row of this run and
\* the rows of the first run, one completed and one in error, are final.
C19_Witness ==
    /\ runNo = 2
    /\ \E i, j, k, l \in 1..Len(history) :
          /\ history[i].started_at = "T1" /\ history[i].status = "completed"
          /\ history[j].started_at = "T1" /\ history[j].status = "error"
          /\ history[k].started_at = "T2" /\ history[k].status = "running"
          /\ history[l].started_at = "T2" /\ FinalizedRow(history[l])

(***************************************************************************)
(* Claims about the fetcher (checked under SpecFetch).                     *)
(***************************************************************************)
\* Failures worth a retry: a 5xx answer, a timeout or connection error.
Transient == {"500", "timeout"}

\* The outcome of the last request sent.
LastResponse == fScript[fAttempt]

\* C20: a 404 is never retried (a fetch whose first answer is 404 sends one
\* request) and is reported as not found; transient failures are retried
\* up to 3 requests in all, with a backoff sleep between two requests; a
\* failure that is not transient is not retried; and when the requests are
\* used up or the failure is not transient, what the caller receives is
\* neither a page nor what it receives for a 404.  The same for fetch_page
\* and fetch_json.
C20_FetcherRetryProtocol ==
    fPc = "done" =>
        /\ fAttempt <= Retries
        /\ \A k \in 1..(fAttempt - 1) : fScript[k] \in Transient
        /\ Len(fSleeps) >= fAttempt - 1
        /\ LastResponse = "404" => fResult = None
        /\ LastResponse \notin {"ok", "404"} =>
              fResult \notin {None, "soup", "json"}

(***************************************************************************)
(* Claims about a batch with failing writes (checked under SpecBatch).     *)
(***************************************************************************)
\* The records of the last batch whose write did not raise, in order.
Survivors(op) ==
    LET kept == SelectSeq(Indices(op.batch), LAMBDA i : ~op.fails[i])
    IN  [k \in 1..Len(kept) |-> op.batch[kept[k]]]

\* C21: when the write of one record of a batch fails, every other record
\* of the batch is still inserted or updated, the call returns, and the
\* count it returns is the number of records whose write succeeded: the
\* table is what saving the other records alone gives.
C21_FailedWriteDoesNotAbortBatch ==
    [][ lastOp'.kind = "Batch" =>
          /\ lastOp'.saved = Len(Survivors(lastOp'))
          /\ auctions' \in {o.table : o \in SaveAuctions(auctions, Survivors(lastOp'))}
          /\ \A r \in ToSet(Survivors(lastOp')) :
                \E i \in 1..Len(auctions') : Matches(auctions'[i], r)
      ]_vars

\* The write of the first record of a batch failed and the second record
\* was inserted as a new row.
C21_Witness ==
    /\ lastOp.kind = "Batch"
    /\ lastOp.fails[1] /\ ~lastOp.fails[2]
    /\ lastOp.saved = 1
    /\ lastOp.ops[1].kind = "Inserted"
    /\ ~Matches(auctions[lastOp.ops[1].id], lastOp.batch[1])

(***************************************************************************)
(* Claims about the geocoding pass (checked under Spec).                   *)
(***************************************************************************)
\* The rows the pass of the run that just returned had to fill: the
\* provider has a pair for their address.
Geocodable ==
    {i \in 1..Len(auctions) :
        /\ auctions[i].adresse # None
        /\ GeocodeAddress(AddressText(auctions[i])).found}

\* C22: after the geocoding pass of a run, every persisted record (there
\* are fewer than the batch limit) for whose address the provider returns
\* a pair holds that pair as latitude and longitude, and the count in the
\* summary is positive when a record had to be filled.
C22_GeocodePassFillsCoordinates ==
    (pc = "returned" /\ summary.kind = "run_all") =>
        /\ \A i \in Geocodable :
              /\ auctions[i].latitude # None
              /\ auctions[i].longitude # None
        /\ (Geocodable # {} /\ rowsAtStart = 0) => summary.geocoded > 0


(***************************************************************************)
(* Claims about the wait for the workers                                   *)
(***************************************************************************)
\* The workers of the run that are neither done nor going to be: started,
\* and their adapter never returns.
Abandonable == {s \in Sources : fut[s].state = "running" /\ site[s] = "hang"}

\* C23: Global timeout.  A worker that never finishes cannot block the run
\* for ever: once every worker of the run is done or is one that never
\* finishes, the coordinator stops waiting and can go on to the
\* deduplication, the save and the summary with the records of the workers
\* that are done.
C23_HungWorkerDoesNotBlockRun ==
    ( /\ pc = "workers"
      /\ Abandonable # {}
      /\ \A s \in Sources : fut[s].state = "done" \/ s \in Abandonable )
    => ENABLED MergeAndSave


(***************************************************************************)
(* Claims about the HTTP triggers (checked under SpecRouter).              *)
(***************************************************************************)
\* The runs of run_coordinated_scrape that are executing against DB_PATH.
Executing == rExec \cup (IF rSync = NoTask THEN {} ELSE {rSync})

\* C24: Run serialization.  Whatever triggers are received, at most one
\* coordinated run is executing against the storage at any time.
C24_AtMostOneRunExecuting == Cardinality(Executing) <= 1


(***************************************************************************)
(* Claims about stored collections (checked under SpecUpsert).             *)
(***************************************************************************)
\* The visit dates, photos and documents a row stores.
StoredItems(row) ==
    [f \in ListFields |-> ToSet(row[f].items)]

\* C25: No loss of persisted collection data.  Every visit date, photo and
\* document stored for an auction is still stored for it after each later
\* upsert, also when the later scrape carries a non-empty smaller list.
C25_StoredCollectionsNeverShrink ==
    [][ \A i \in 1..Len(auctions) : \A f \in ListFields :
            StoredItems(auctions[i])[f] \subseteq StoredItems(auctions'[i])[f]
      ]_vars


(***************************************************************************)
(* Claims about the grouping (checked under SpecDedup).                    *)
(***************************************************************************)
\* What makes the key of a record: the first available of the hash, the
\* url, the address with the postal code, the description with the
\* starting price.
FirstAvailableKey(a) ==
    IF a.hash \notin {None, ""} THEN <<"hash", a.hash>>
    ELSE IF a.url \notin {None, ""} THEN <<"url", a.url>>
    ELSE IF a.adresse \notin {None, ""} /\ a.code_postal \notin {None, ""}
    THEN <<"addr", a.adresse, a.code_postal>>
    ELSE <<"desc",
           IF a.description \in {None, ""} THEN "" ELSE a.description,
           IF a.mise_a_prix \in {None, "0", "0.0"} THEN "" ELSE a.mise_a_prix>>

\* The positions of the records given that have key k.
Keyed(k) == {i \in 1..Len(dIn) : FirstAvailableKey(dIn[i]) = k}

C27_MergeIdempotentScalarsCommute ==
    mSteps = 1 =>
        /\ mIn = mPrev =>
              \A f \in DOMAIN mAcc \ {"scraped_at"} : mAcc[f] = mPrev[f]
        /\ \A f \in FirstWinsFields : mAcc[f] = mSwap[f]


(***************************************************************************)
(* Claims about the history rows of parallel workers (checked under Spec). *)
(***************************************************************************)
\* row is the final row of the worker of s in the current run: the status,
\* pages and count of what that worker did (an error leaves the counts of
\* the start row).
OwnFinalRow(s, row) ==
    /\ row.source = s
    /\ row.started_at = Now
    /\ IF OutcomeOf(s).raised
       THEN /\ row.status = "error"
            /\ row.error_message = OutcomeOf(s).error
            /\ row.pages_scraped = 0
            /\ row.auctions_found = 0
       ELSE /\ row.status = "completed"
            /\ row.pages_scraped = OutcomeOf(s).result.pages_scraped
            /\ row.auctions_found = OutcomeOf(s).result.auctions_found

\* C30: under any interleaving of the parallel workers of a run of all
\* sources, each worker creates its own history row and finalizes only that
\* row; after the run the history holds exactly one new row per source,
\* and each carries the status, pages_scraped and auctions_found of its
\* own source, never those of a sibling.
C30_WorkersFinalizeOwnRows ==
    /\ [] ( (job.sources = <<>> /\ pc = "returned") =>
              /\ Len(history) = runNo * Cardinality(Sources)
              /\ \A s \in Sources :
                    \E i \in 1..Len(history) :
                        /\ HistoryRows(s) = {i}
                        /\ OwnFinalRow(s, history[i]) )
    /\ [][ job.sources = <<>> =>
              /\ Len(history') \in {Len(history), Len(history) + 1}
              /\ \A i \in (Len(history) + 1)..Len(history') :
                    \E s \in Sources :
                        /\ fut[s].state = "queued"
                        /\ fut'[s].state = "running"
                        /\ fut'[s].hid = i
                        /\ history'[i] = ScrapeStartRow(s, Now)
              /\ \A i \in 1..Len(history) :
                    history'[i] # history[i] =>
                        \E s \in Sources :
                            /\ fut[s].state = "running"
                            /\ fut[s].hid = i
                            /\ fut'[s].state = "done"
                            /\ OwnFinalRow(s, history'[i])
                            /\ \A j \in 1..Len(history) :
                                  j # i => history'[j] = history[j]
          ]_vars

\* A second run of all sources has returned; its rows were created in an
\* order other than that of the registry, one is in error and two are
\* completed with different counts.
C30_Witness ==
    /\ job.sources = <<>>
    /\ pc = "returned"
    /\ runNo = 2
    /\ history[Len(history) - 2].source = "agorastore"
    /\ history[Len(history)].source = "encheres_publiques"
    /\ \E a, b, c \in Sources :
          \E i, j, k \in (Len(history) - 2)..Len(history) :
              /\ HistoryRows(a) = {i} /\ HistoryRows(b) = {j}
              /\ HistoryRows(c) = {k}
              /\ history[i].status = "error"
              /\ history[j].status = "completed"
              /\ history[k].status = "completed"
              /\ history[j].auctions_found # history[k].auctions_found
              /\ history[j].auctions_found > 0
              /\ history[k].auctions_found > 0

\* The fields compute_hash reads.
HashFields == {"source", "adresse", "code_postal", "mise_a_prix", "date_vente"}

\* C29: every record that reaches the deduplication has a non-empty hash
\* computed by its worker, so the key of its group is that hash and no
\* fallback key is used; two records are grouped only if they agree on
\* source, address, postal code, starting price and sale date.
C29_GroupedOnlyIfHashFieldsAgree ==
    mSteps = 1 =>
        /\ \A r \in {mPrev, mIn} :
              /\ r.hash \notin {None, ""}
              /\ DedupKey(r) = r.hash
        /\ \A f \in HashFields : mPrev[f] = mIn[f]

(***************************************************************************)
(* Claims about sites that do not answer (checked under SpecJoin).         *)
(***************************************************************************)
\* The pages of s whose urls the worker of s did not get although the site
\* has them and max_pages allows them.
PagesMissed(s) ==
    {p \in 1..job.max_pages :
        /\ p <= Len(ListingPages(s))
        /\ p > ScrapePages(s, 1, job.max_pages, <<>>, Now).page
           \/ ScrapeListingPage(s, p) = <<>>}

\* C28: Transient listing failure is not end of pagination.  When the
\* fetch of a listing page of a source fails on every attempt, the worker
\* does not treat the page as empty: the history row of the source is
\* finalized as error, never as completed with pages missing.
C28_ListingOutageIsError ==
    \A s \in Sources :
        ( /\ pc = "workers"
          /\ fut[s].state = "done"
          /\ site[s] = "outage"
          /\ PagesMissed(s) # {} )
        => history[fut[s].hid].status = "error"

=============================================================================
